---- MODULE Spec2Model ----
(***************************************************************************)
(* Model of the form-widget glue of axelor-front:                          *)
(*   - FormWidget / FormField / useExpressions / processSchema             *)
(*     (views/form/builder form-widget, src/unnamed/part_000)              *)
(*   - the Phone widget (views/form/widgets/phone/phone.tsx)               *)
(*                                                                         *)
(* JavaScript values are encoded as follows.                               *)
(*   - an expression string is a sequence of string pieces whose           *)
(*     concatenation (Join) is the string; <<>> is the empty string, which *)
(*     is falsy exactly like undefined, so it also stands for "not given". *)
(*   - an object with optional keys is a function whose DOMAIN is the set  *)
(*     of keys that are present.                                           *)
(*   - widget errors are [def, map]: def = FALSE is undefined/null.        *)
(*   - field values are the strings of Values; "undefined" and "null" are  *)
(*     the two JavaScript nullish values.                                  *)
(***************************************************************************)
EXTENDS Integers, Sequences, FiniteSets, TLC

VARIABLES
  schema,      \* the widget's schema (props.schema)
  props,       \* FormWidget props other than the schema: render, readonly
  attrs,       \* widgetAtom.attrs
  errors,      \* widgetAtom.errors
  value,       \* valueAtom
  lastSet,     \* the last set(valueAtom, value, fireOnChange, markDirty) call
  record,      \* the record of the last recordHandler notification
  wlog,        \* the writes to widgetAtom made by the last handler run
  lastValid,   \* truthiness of the last validIf evaluation ("none" before any)
  lastCheck,   \* result of the last validate() call
  rendered,    \* what FormWidget returned at the last render
  mounted,     \* whether the last render mounted (or kept) FormField
  renderedValue, \* the value FormField read at the last render (effect deps)
  processed,   \* result of the last processSchema call
  formState,   \* formAtom.statesByName[schema.name]
  lastClear,   \* what the last clearError call did: "none", "written", "skipped"
  effect,      \* state of the clearError effect of FormField
  phone,       \* state of the Phone widget
  lastOp       \* the operation that produced the current state

vars == <<schema, props, attrs, errors, value, lastSet, record, wlog, lastValid,
          lastCheck, rendered, mounted, renderedValue, processed, formState, lastClear,
          effect, phone, lastOp>>

(***************************************************************************)
(* Expressions: strings built from pieces, and their evaluation.           *)
(***************************************************************************)

\* The string a sequence of pieces stands for.
RECURSIVE Join(_)
Join(ts) == IF ts = <<>> THEN "" ELSE Head(ts) \o Join(Tail(ts))

\* Lexer: the tokens of one piece.
Expand(t) ==
  CASE t = "($record." -> <<"(", "$record.">>
    [] t = ".id === "  -> <<"===">>
    [] t = " && ("     -> <<"&&", "(">>
    [] t = " && !("    -> <<"&&", "!", "(">>
    [] t = " && "      -> <<"&&">>
    [] t = " || "      -> <<"||">>
    [] OTHER           -> <<t>>

RECURSIVE Tokens(_)
Tokens(ts) == IF ts = <<>> THEN <<>> ELSE Expand(Head(ts)) \o Tokens(Tail(ts))

\* Recursive-descent evaluation with JavaScript precedence
\* ( ||  <  &&  <  ===  <  !  <  primary ); each returns [v, p]: the value and
\* the position after the parsed phrase.
RECURSIVE ParseOr(_, _, _), ParseAnd(_, _, _), ParseUnary(_, _, _)
ParseUnary(ts, i, rec) ==
  IF ts[i] = "!" THEN
    LET r == ParseUnary(ts, i + 1, rec) IN [v |-> ~r.v, p |-> r.p]
  ELSE IF ts[i] = "(" THEN
    LET r == ParseOr(ts, i + 1, rec) IN [v |-> r.v, p |-> r.p + 1]
  ELSE IF ts[i] = "$record." THEN
    \* $record.<field>.id === <value>
    [v |-> rec[ts[i + 1]].id = ts[i + 3], p |-> i + 4]
  ELSE
    [v |-> rec[ts[i]], p |-> i + 1]

ParseAnd(ts, i, rec) ==
  LET l == ParseUnary(ts, i, rec) IN
  IF l.p <= Len(ts) /\ ts[l.p] = "&&" THEN
    LET r == ParseAnd(ts, l.p + 1, rec) IN [v |-> l.v /\ r.v, p |-> r.p]
  ELSE l

ParseOr(ts, i, rec) ==
  LET l == ParseAnd(ts, i, rec) IN
  IF l.p <= Len(ts) /\ ts[l.p] = "||" THEN
    LET r == ParseOr(ts, l.p + 1, rec) IN [v |-> l.v \/ r.v, p |-> r.p]
  ELSE l

\* Boolean(parseExpression(expr)(context))
parseExpression(expr, rec) == ParseOr(Tokens(expr), 1, rec).v

\* parseAngularExp(bind)(context): bind names a field of the record.
parseAngularExp(bind, rec) == rec[Join(bind)]

(***************************************************************************)
(* processSchema                                                           *)
(***************************************************************************)

\* truthiness of an expression string
Truthy(s) == s # <<>>

processSchema_NoParens(s) ==
  IF \/ ~s.jsonField
     \/ s.contextField = ""
     \/ s.contextFieldValue = ""
     \/ (s.hidden /\ ~Truthy(s.showIf) /\ ~Truthy(s.hideIf))
  THEN s
  ELSE
    LET ctx == <<"($record.", s.contextField, ".id === ", s.contextFieldValue, ")">>
        req == IF s.required \/ Truthy(s.requiredIf)
               THEN IF Truthy(s.requiredIf)
                    THEN ctx \o <<" && ">> \o s.requiredIf
                    ELSE ctx
               ELSE s.requiredIf
        show1 == IF Truthy(s.showIf) THEN ctx \o <<" && ">> \o s.showIf ELSE ctx
        show2 == IF Truthy(s.hideIf)
                 THEN show1 \o <<" && !(">> \o s.hideIf \o <<")">>
                 ELSE show1
    IN [s EXCEPT !.showIf = show2, !.hideIf = <<>>, !.requiredIf = req]

processSchema(s) ==
  IF \/ ~s.jsonField
     \/ s.contextField = ""
     \/ s.contextFieldValue = ""
     \/ (s.hidden /\ ~Truthy(s.showIf) /\ ~Truthy(s.hideIf))
  THEN s
  ELSE
    LET contextFieldShowIf0 ==
          <<"($record.", s.contextField, ".id === ", s.contextFieldValue, ")">>
        contextFieldRequiredIf ==
          IF s.required \/ Truthy(s.requiredIf)
          THEN IF Truthy(s.requiredIf)
               THEN contextFieldShowIf0 \o <<" && (">> \o s.requiredIf \o <<")">>
               ELSE contextFieldShowIf0
          ELSE s.requiredIf
        contextFieldShowIf1 ==
          IF Truthy(s.showIf)
          THEN contextFieldShowIf0 \o <<" && (">> \o s.showIf \o <<")">>
          ELSE contextFieldShowIf0
        contextFieldShowIf2 ==
          IF Truthy(s.hideIf)
          THEN contextFieldShowIf1 \o <<" && !(">> \o s.hideIf \o <<")">>
          ELSE contextFieldShowIf1
    IN [s EXCEPT !.showIf = contextFieldShowIf2,
                 !.hideIf = <<>>,
                 !.requiredIf = contextFieldRequiredIf]

(***************************************************************************)
(* Widget state and the handlers of useExpressions                        *)
(***************************************************************************)

\* st is the state a handler run threads through its get/set calls:
\* [attrs, errors, value, lastSet, wlog, lastValid].

\* attrs[attr], where an absent key reads undefined
HasAttr(a, k) == k \in DOMAIN a
AttrIs(a, k, b) == k \in DOMAIN a /\ a[k] = b

\* { ...attrs, [attr]: next }
WithAttr(a, k, b) == [x \in DOMAIN a \cup {k} |-> IF x = k THEN b ELSE a[x]]

\* schema.jsonField || type === "field" || type === "panel-related"
isField(s) == s.jsonField \/ s.type = "field" \/ s.type = "panel-related"

Nullish(v) == v = "undefined" \/ v = "null"

handleBind_AlwaysDirty(st, rec, bind, hasValueAtom) ==
  IF hasValueAtom THEN
    LET prevValue == st.value
        result    == parseAngularExp(bind, rec)
        val       == IF Nullish(result) THEN "null" ELSE result
    IN [st EXCEPT !.value = val,
                  !.lastSet = [called |-> TRUE, value |-> val,
                               fireOnChange |-> FALSE,
                               markDirty |-> prevValue # "undefined",
                               prev |-> prevValue]]
  ELSE st

handleBind(st, rec, bind, hasValueAtom) ==
  IF hasValueAtom THEN
    LET prevValue == st.value
        result    == parseAngularExp(bind, rec)
        val       == IF Nullish(result) THEN "null" ELSE result
        isDirty   == IF prevValue = "undefined" THEN FALSE ELSE prevValue # val
    IN [st EXCEPT !.value = val,
                  !.lastSet = [called |-> TRUE, value |-> val,
                               fireOnChange |-> FALSE, markDirty |-> isDirty,
                               prev |-> prevValue]]
  ELSE st

\* One entry of wlog: a set(widgetAtom, ...) call.
Write(st, by, newAttrs, newErrors) ==
  [by |-> by,
   pre |-> [attrs |-> st.attrs, errors |-> st.errors],
   post |-> [attrs |-> newAttrs, errors |-> newErrors]]

handleCondition(st, rec, attr, expr, negate) ==
  LET val  == parseExpression(expr, rec)
      next == IF negate THEN ~val ELSE val
  IN IF ~AttrIs(st.attrs, attr, next)     \* next !== prev
     THEN [st EXCEPT !.attrs = WithAttr(st.attrs, attr, next),
                     !.wlog = Append(st.wlog,
                                Write(st, attr, WithAttr(st.attrs, attr, next),
                                      st.errors))]
     ELSE st

\* i18n.get("{0} is invalid", title)
InvalidMessage(title) == title \o " is invalid"

\* Objects of errors: functions from the keys present to messages.
NoErrors == [k \in {} |-> ""]
WithError(m, k, msg) == [x \in DOMAIN m \cup {k} |-> IF x = k THEN msg ELSE m[x]]
WithoutError(m, k) == [x \in DOMAIN m \ {k} |-> m[x]]
\* { ...a, ...b }
Spread(a, b) == [x \in DOMAIN a \cup DOMAIN b |-> IF x \in DOMAIN b THEN b[x] ELSE a[x]]
\* errors ?? {}
OrEmpty(e) == IF e.def THEN e.map ELSE NoErrors
Undefined == [def |-> FALSE, map |-> NoErrors]
Obj(m) == [def |-> TRUE, map |-> m]

handleValidation_DropOthers(st, rec, expr) ==
  LET val  == parseExpression(expr, rec)
      errs == IF val THEN NoErrors
              ELSE WithError(NoErrors, "invalid", InvalidMessage(st.attrs.title))
  IN IF ~(st.errors.def /\ st.errors.map = errs)
     THEN [st EXCEPT !.errors = Obj(errs),
                     !.lastValid = IF val THEN "truthy" ELSE "falsy",
                     !.wlog = Append(st.wlog, Write(st, "errors", st.attrs, Obj(errs)))]
     ELSE [st EXCEPT !.lastValid = IF val THEN "truthy" ELSE "falsy"]

handleValidation(st, rec, expr) ==
  LET val    == parseExpression(expr, rec)
      errs0  == WithError(OrEmpty(st.errors), "invalid",
                          InvalidMessage(st.attrs.title))
      errs   == IF val THEN WithoutError(errs0, "invalid") ELSE errs0
  IN IF ~(st.errors.def /\ st.errors.map = errs)     \* !isEqual(state.errors, errors)
     THEN [st EXCEPT !.errors = Obj(errs),
                     !.lastValid = IF val THEN "truthy" ELSE "falsy",
                     !.wlog = Append(st.wlog, Write(st, "errors", st.attrs, Obj(errs)))]
     ELSE [st EXCEPT !.lastValid = IF val THEN "truthy" ELSE "falsy"]

\* The conditions the subscribed callback evaluates, in the order of the code:
\* <<schema key, attribute, negate>>.
Conditions1 ==
  << <<"showIf", "hidden", TRUE>>,
     <<"hideIf", "hidden", FALSE>>,
     <<"readonlyIf", "readonly", FALSE>>,
     <<"requiredIf", "required", FALSE>>,
     <<"collapseIf", "collapse", FALSE>> >>

Conditions2 ==
  << <<"canNew", "canNew", FALSE>>,
     <<"canEdit", "canEdit", FALSE>>,
     <<"canView", "canView", FALSE>>,
     <<"canSave", "canSave", FALSE>>,
     <<"canCopy", "canCopy", FALSE>>,
     <<"canRemove", "canRemove", FALSE>>,
     <<"canDelete", "canDelete", FALSE>>,
     <<"canArchive", "canArchive", FALSE>>,
     <<"canAttach", "canAttach", FALSE>>,
     <<"canSelect", "canSelect", FALSE>> >>

ConditionKeys ==
  {Conditions1[i][1] : i \in DOMAIN Conditions1} \cup
  {Conditions2[i][1] : i \in DOMAIN Conditions2}

\* if (expr) handleCondition(ctx, attr, expr, negate), for each entry of cs
RECURSIVE RunConditions(_, _, _, _)
RunConditions(st, rec, s, cs) ==
  IF cs = <<>> THEN st
  ELSE LET c    == Head(cs)
           next == IF Truthy(s[c[1]])
                   THEN handleCondition(st, rec, c[2], s[c[1]], c[3])
                   ELSE st
       IN RunConditions(next, rec, s, Tail(cs))

\* hasExpression || bind, on the processed schema
Subscribed(s) ==
  \/ \E k \in ConditionKeys : Truthy(s[k])
  \/ Truthy(s.validIf)
  \/ Truthy(s.bind)

\* if (bind) handleBind(ctx, bind)
BindStep(st, rec, s, hasValueAtom) ==
  IF Truthy(s.bind) THEN handleBind(st, rec, s.bind, hasValueAtom) ELSE st

\* if (validIf) handleValidation(ctx, validIf)
ValidationStep(st, rec, s) ==
  IF Truthy(s.validIf) THEN handleValidation(st, rec, s.validIf) ELSE st

\* The callback given to recordHandler.subscribe, s being processSchema(schema).
OnRecordSteps(st, rec, s, hasValueAtom) ==
  RunConditions(
    ValidationStep(
      RunConditions(BindStep([st EXCEPT !.wlog = <<>>], rec, s, hasValueAtom),
                    rec, s, Conditions1),
      rec, s),
    rec, s, Conditions2)

OnRecord(st, rec, sch) == OnRecordSteps(st, rec, processSchema(sch), isField(sch))

WidgetSt ==
  [attrs |-> attrs, errors |-> errors, value |-> value, lastSet |-> lastSet,
   wlog |-> wlog, lastValid |-> lastValid]

\* valueCheck, with r the result of validate(value, {props, context})
valueCheck_Overwrite(st, r) ==
  IF OrEmpty(st.errors) = OrEmpty(r) THEN [st EXCEPT !.wlog = <<>>]
  ELSE [st EXCEPT !.errors = r,
                  !.wlog = <<Write(st, "errors", st.attrs, r)>>]

valueCheck(st, r) ==
  LET prev    == st.errors
      invalid == prev.def /\ "invalid" \in DOMAIN prev.map /\ prev.map["invalid"] # ""
      errs    == IF invalid
                 THEN Obj(Spread(WithError(NoErrors, "invalid", prev.map["invalid"]),
                                 OrEmpty(r)))
                 ELSE r
  IN IF OrEmpty(prev) = OrEmpty(errs)     \* isEqual(prev.errors ?? {}, errors ?? {})
     THEN [st EXCEPT !.wlog = <<>>]
     ELSE [st EXCEPT !.errors = errs,
                     !.wlog = <<Write(st, "errors", st.attrs, errs)>>]

(***************************************************************************)
(* FormWidget: what is rendered                                            *)
(***************************************************************************)

FormWidget_EditorFirst(s, p, a) ==
  LET hidden   == AttrIs(a, "hidden", TRUE)
      readonly == AttrIs(a, "readonly", TRUE) \/ p.readonly
      canEdit  == IF HasAttr(a, "canEdit") THEN a["canEdit"] ELSE TRUE
      canView  == IF HasAttr(a, "canView") THEN a["canView"] ELSE TRUE
      canShowEditor == s.editor.def /\ isField(s) /\ canEdit
      canShowViewer == s.viewer /\ isField(s) /\ canView /\ readonly
      showEditorAsViewer ==
        s.editor.def /\ s.editor.viewer /\ isField(s) /\ canView /\ readonly
  IN IF p.render THEN "Comp"
     ELSE IF hidden THEN "null"
     ELSE IF canShowEditor \/ showEditorAsViewer THEN "FieldEditor"
     ELSE IF canShowViewer THEN "FieldViewer"
     ELSE "FormItem"

FormWidget(s, p, a) ==
  LET hidden   == AttrIs(a, "hidden", TRUE)
      readonly == AttrIs(a, "readonly", TRUE) \/ p.readonly
      \* a.attrs.canEdit ?? true, a.attrs.canView ?? true
      canEdit  == IF HasAttr(a, "canEdit") THEN a["canEdit"] ELSE TRUE
      canView  == IF HasAttr(a, "canView") THEN a["canView"] ELSE TRUE
      \* valueAtom is defined exactly when isField(schema)
      canShowEditor == s.editor.def /\ isField(s) /\ canEdit /\ ~readonly
      canShowViewer == s.viewer /\ isField(s) /\ canView /\ readonly
      showEditorAsViewer ==
        s.editor.def /\ s.editor.viewer /\ isField(s) /\ canView /\ readonly
  IN IF p.render THEN "Comp"
     ELSE IF hidden THEN "null"
     ELSE IF canShowViewer THEN "FieldViewer"
     ELSE IF canShowEditor \/ showEditorAsViewer THEN "FieldEditor"
     ELSE "FormItem"

\* useWidget(schema): whether a component is registered for the schema's
\* widget.
KnownWidgets == {"string"}
useWidget(s) == s.widget \in KnownWidgets

\* What FormItem renders: nothing when hidden, FormField when a component is
\* found and a valueAtom was handed down (FormWidget creates one for a field),
\* the component itself without a valueAtom, Unknown without a component.
FormItem(s, a) ==
  IF AttrIs(a, "hidden", TRUE) THEN "null"
  ELSE IF useWidget(s) THEN IF isField(s) THEN "FormField" ELSE "Comp"
  ELSE "Unknown"

\* FormField is mounted by a render in which FormWidget returned r.
Mounts(r, s, a) == r = "FormItem" /\ FormItem(s, a) = "FormField"

\* FormField is mounted at the last render.
FormFieldMounted == mounted

(***************************************************************************)
(* The server error of the field and the clearError effect                 *)
(***************************************************************************)

\* get(serverErrorAtom): statesByName[name] valueOr {errors: {}}, errors
\* valueOr {error: ""}, then error.
serverError(fs) == IF fs.present /\ fs.hasErrors THEN fs.error ELSE ""

clearError_Never(fs) == [fs |-> fs, did |-> "skipped"]

clearError(fs) ==
  IF serverError(fs) # ""
  THEN [fs |-> [fs EXCEPT !.error = ""], did |-> "written"]
  ELSE [fs |-> fs, did |-> "skipped"]

(***************************************************************************)
(* Inputs                                                                  *)
(***************************************************************************)

MaxCtxId == 2

\* ids of the record's context object, as they print in an expression
CtxIds == {ToString(i) : i \in 1..MaxCtxId}

MaxVal == 3

\* Field values: the two nullish values and MaxVal others
Values == {"undefined", "null"} \cup {"v" \o ToString(i) : i \in 1..MaxVal}

\* Records: the variables a and b of the user expressions, the context
\* object named by contextField, and the field x a bind expression reads.
Records(xs) == [a : BOOLEAN, b : BOOLEAN, ctx : [id : CtxIds], x : xs]

NoRecord == [a |-> FALSE, b |-> FALSE, ctx |-> [id |-> "1"], x |-> "undefined"]

NoEditor == [def |-> FALSE, viewer |-> FALSE]

BaseSchema ==
  [type |-> "field", widget |-> "string", name |-> "f", jsonField |-> FALSE,
   contextField |-> "", contextFieldValue |-> "",
   hidden |-> FALSE, required |-> FALSE,
   viewer |-> FALSE, editor |-> NoEditor,
   showIf |-> <<>>, hideIf |-> <<>>, readonlyIf |-> <<>>, requiredIf |-> <<>>,
   validIf |-> <<>>, collapseIf |-> <<>>,
   canNew |-> <<>>, canEdit |-> <<>>, canView |-> <<>>, canSave |-> <<>>,
   canCopy |-> <<>>, canRemove |-> <<>>, canDelete |-> <<>>, canArchive |-> <<>>,
   canAttach |-> <<>>, canSelect |-> <<>>, bind |-> <<>>]

Titles == {"Name"}
TitleOnly(title) == [k \in {"title"} |-> title]

\* attrs with each key of ks absent, true or false
RECURSIVE AttrsOver(_, _)
AttrsOver(base, ks) ==
  IF ks = {} THEN {base}
  ELSE LET k == CHOOSE x \in ks : TRUE
           rest == AttrsOver(base, ks \ {k})
       IN rest \cup {WithAttr(r, k, bv) : r \in rest, bv \in BOOLEAN}

NoSet == [called |-> FALSE, value |-> "undefined", fireOnChange |-> FALSE,
          markDirty |-> FALSE, prev |-> "undefined"]
NoCheck == [called |-> FALSE, r |-> Undefined]
NoFormState == [present |-> FALSE, hasErrors |-> FALSE, error |-> ""]

\* Results of validate(value, {props, context}): undefined or an object of
\* messages keyed by the failed rule.
ValidateResults ==
  {Undefined, Obj(NoErrors),
   Obj(WithError(NoErrors, "required", "Field is required")),
   Obj(WithError(WithError(NoErrors, "required", "Field is required"),
                 "pattern", "Invalid pattern"))}

DefaultProps == [render |-> FALSE, readonly |-> FALSE]

(***************************************************************************)
(* Actions                                                                 *)
(***************************************************************************)

PhoneVars == <<phone>>
SchemaVars == <<schema, props, processed>>

\* The clearError effect of FormField after a render: it is aborted when
\* FormField unmounts while it is pending, and (re)started when FormField
\* mounts or the value it reads differs from the one of the last render.
EffectAfter(mountedAfter) ==
  IF ~mountedAfter
  THEN IF effect = "pending" THEN "aborted" ELSE effect
  ELSE IF ~FormFieldMounted \/ value # renderedValue THEN "pending" ELSE effect

WidgetInit(s, p, a, e, v, fs) ==
  /\ schema = s
  /\ props = p
  /\ attrs = a
  /\ errors = e
  /\ value = v
  /\ lastSet = NoSet
  /\ record = NoRecord
  /\ wlog = <<>>
  /\ lastValid = "none"
  /\ lastCheck = NoCheck
  /\ rendered = FormWidget(s, p, a)
  /\ mounted = Mounts(FormWidget(s, p, a), s, a)
  /\ renderedValue = v
  /\ processed = s
  /\ formState = fs
  /\ lastClear = "none"
  /\ effect = IF Mounts(FormWidget(s, p, a), s, a) THEN "pending" ELSE "idle"
  /\ lastOp = "init"

\* What is on screen: the result of the last render and the state of the
\* effect it scheduled.
RenderVars == <<rendered, mounted, renderedValue, effect>>

\* recordHandler notifies the subscribed callback with a record: the callback
\* writes valueAtom and widgetAtom and returns.
RecordNotify(rec) ==
  /\ Subscribed(processSchema(schema))
  /\ \E st \in {OnRecord(WidgetSt, rec, schema)} :
        /\ attrs' = st.attrs
        /\ errors' = st.errors
        /\ value' = st.value
        /\ lastSet' = st.lastSet
        /\ wlog' = st.wlog
        /\ lastValid' = st.lastValid
  /\ record' = rec
  /\ lastOp' = "notify"
  /\ UNCHANGED <<SchemaVars, RenderVars, lastCheck, formState, lastClear,
                 PhoneVars>>

\* React renders FormWidget again after the atoms it reads have changed and
\* commits: FormField is mounted, kept or unmounted, and the clearError effect
\* is aborted or started accordingly.
Render ==
  /\ \/ FormWidget(schema, props, attrs) # rendered
     \/ FormFieldMounted /\ value # renderedValue
  /\ \E r \in {FormWidget(schema, props, attrs)} :
        /\ rendered' = r
        /\ mounted' = Mounts(r, schema, attrs)
        /\ effect' = EffectAfter(Mounts(r, schema, attrs))
  /\ renderedValue' = value
  /\ lastOp' = "render"
  /\ UNCHANGED <<SchemaVars, attrs, errors, value, lastSet, record, wlog,
                 lastValid, lastCheck, formState, lastClear, PhoneVars>>

\* The valueCheck effect of FormField, r being what validate returns.
ValueCheck(r) ==
  /\ FormFieldMounted
  /\ \E st \in {valueCheck(WidgetSt, r)} :
        /\ errors' = st.errors
        /\ wlog' = st.wlog
  /\ lastCheck' = [called |-> TRUE, r |-> r]
  /\ lastOp' = "valueCheck"
  /\ UNCHANGED <<SchemaVars, RenderVars, attrs, value, lastSet, record,
                 lastValid, formState, lastClear, PhoneVars>>

\* The widget inside FormField sets a new value (an edit by the user).
UserInput(v) ==
  /\ FormFieldMounted
  /\ v # value
  /\ value' = v
  /\ lastSet' = [called |-> TRUE, value |-> v, fireOnChange |-> TRUE,
                 markDirty |-> TRUE, prev |-> value]
  /\ lastOp' = "input"
  /\ UNCHANGED <<SchemaVars, RenderVars, attrs, errors, record, wlog, lastValid,
                 lastCheck, formState, lastClear, PhoneVars>>

\* The clearError effect runs: signal.aborted || clearError().
RunClearError ==
  /\ effect = "pending"
  /\ \E c \in {clearError(formState)} :
        /\ formState' = c.fs
        /\ lastClear' = c.did
  /\ effect' = "idle"
  /\ lastOp' = "clearError"
  /\ UNCHANGED <<SchemaVars, attrs, errors, value, lastSet, record, wlog,
                 lastValid, lastCheck, rendered, mounted, renderedValue,
                 PhoneVars>>

\* A server response stores an error for the field in the form state.
ServerError(e) ==
  /\ formState' = [present |-> TRUE, hasErrors |-> TRUE, error |-> e]
  /\ formState' # formState
  /\ lastOp' = "serverError"
  /\ UNCHANGED <<SchemaVars, RenderVars, attrs, errors, value, lastSet, record,
                 wlog, lastValid, lastCheck, lastClear, PhoneVars>>

\* processSchema applied to the schema (the first step of the useExpressions
\* effect).
ProcessSchema ==
  /\ lastOp = "init"
  /\ processed' = processSchema(schema)
  /\ lastOp' = "processSchema"
  /\ UNCHANGED <<schema, props, RenderVars, attrs, errors, value, lastSet,
                 record, wlog, lastValid, lastCheck, formState, lastClear,
                 PhoneVars>>

(***************************************************************************)
(* The Phone widget.  Strings are sequences of characters here, so that    *)
(* split and toLowerCase work on characters.                               *)
(***************************************************************************)

UpperCase ==
  <<"A", "B", "C", "D", "E", "F", "G", "H", "I", "J", "K", "L", "M",
    "N", "O", "P", "Q", "R", "S", "T", "U", "V", "W", "X", "Y", "Z">>
LowerCase ==
  <<"a", "b", "c", "d", "e", "f", "g", "h", "i", "j", "k", "l", "m",
    "n", "o", "p", "q", "r", "s", "t", "u", "v", "w", "x", "y", "z">>
Digits == {"0", "1", "2", "3", "4", "5", "6", "7", "8", "9"}

\* \w of a regular expression: [A-Za-z0-9_]
WordChars ==
  {UpperCase[i] : i \in DOMAIN UpperCase} \cup
  {LowerCase[i] : i \in DOMAIN LowerCase} \cup Digits \cup {"_"}

\* \W: the characters of s that are not word characters
NonWordChars(s) == {s[i] : i \in DOMAIN s} \ WordChars

toLowerCaseChar(c) ==
  IF \E i \in DOMAIN UpperCase : UpperCase[i] = c
  THEN LowerCase[CHOOSE i \in DOMAIN UpperCase : UpperCase[i] = c]
  ELSE c

toLowerCase(s) == [i \in DOMAIN s |-> toLowerCaseChar(s[i])]

\* String.prototype.split: seps are the separator characters; with runs a
\* maximal run of separators is one separator (the regular expression \W+).
RECURSIVE SplitFrom(_, _, _, _, _, _, _)
SplitFrom(s, seps, runs, i, cur, acc, prevSep) ==
  IF i > Len(s) THEN Append(acc, cur)
  ELSE IF s[i] \in seps
       THEN IF runs /\ prevSep
            THEN SplitFrom(s, seps, runs, i + 1, cur, acc, TRUE)
            ELSE SplitFrom(s, seps, runs, i + 1, <<>>, Append(acc, cur), TRUE)
       ELSE SplitFrom(s, seps, runs, i + 1, Append(cur, s[i]), acc, FALSE)

Split(s, seps, runs) == SplitFrom(s, seps, runs, 1, <<>>, <<>>, FALSE)

Includes(list, x) == \E i \in DOMAIN list : list[i] = x

\* _onlyCountries?.split(/\W+/).map(toLowerCase) ?? []
onlyCountriesOf(raw) ==
  IF ~raw.def THEN <<>>
  ELSE LET parts == Split(raw.s, NonWordChars(raw.s), TRUE)
       IN [i \in DOMAIN parts |-> toLowerCase(parts[i])]

\* The table of fallback countries, as pairs <<language, country>>
FALLBACK_COUNTRIES ==
  {<< <<"a", "f">>, <<"z", "a">> >>, << <<"a", "r">>, <<"s", "a">> >>,
   << <<"b", "e">>, <<"b", "y">> >>, << <<"b", "n">>, <<"b", "d">> >>,
   << <<"b", "s">>, <<"b", "a">> >>, << <<"c", "s">>, <<"c", "z">> >>,
   << <<"d", "a">>, <<"d", "k">> >>, << <<"e", "l">>, <<"g", "r">> >>,
   << <<"e", "n">>, <<"u", "s">> >>, << <<"e", "t">>, <<"e", "e">> >>,
   << <<"f", "a">>, <<"i", "r">> >>, << <<"g", "u">>, <<"i", "n">> >>,
   << <<"h", "e">>, <<"i", "l">> >>, << <<"h", "i">>, <<"i", "n">> >>,
   << <<"j", "a">>, <<"j", "p">> >>, << <<"k", "o">>, <<"k", "r">> >>,
   << <<"m", "s">>, <<"m", "y">> >>, << <<"s", "v">>, <<"s", "e">> >>,
   << <<"u", "k">>, <<"u", "a">> >>, << <<"v", "i">>, <<"v", "n">> >>,
   << <<"z", "h">>, <<"c", "n">> >>}

\* FALLBACK_COUNTRIES[language] ?? language
fallbackCountry(language) ==
  IF \E e \in FALLBACK_COUNTRIES : e[1] = language
  THEN (CHOOSE e \in FALLBACK_COUNTRIES : e[1] = language)[2]
  ELSE language

\* language.split("-")[1], <<>> when there is none
CountryPart(language) ==
  LET parts == Split(language, {"-"}, FALSE)
  IN IF Len(parts) >= 2 THEN parts[2] ELSE <<>>

\* _findLocale(locales, locale, tr): the first of locales whose tr equals locale
RECURSIVE findLocale(_, _)
findLocale(locales, locale) ==
  IF locales = <<>> THEN <<>>
  ELSE IF Split(Head(locales), {"-"}, FALSE)[1] = locale THEN Head(locales)
  ELSE findLocale(Tail(locales), locale)

\* The country the widget starts from, before onlyCountries is applied.
localeCountry(initialCountry, locale, languages) ==
  IF initialCountry # <<>> THEN initialCountry
  ELSE LET parts    == Split(locale, {"-"}, FALSE)
           language == toLowerCase(parts[1])
           withCountry == SelectSeq(languages, LAMBDA l : CountryPart(l) # <<>>)
           found    == findLocale(withCountry, locale)
       IN IF Len(parts) >= 2 THEN toLowerCase(parts[2])
          ELSE IF found # <<>> THEN toLowerCase(CountryPart(found))
          ELSE fallbackCountry(language)

defaultCountryOf_NoFallback(initialCountry, locale, languages, only) ==
  localeCountry(initialCountry, locale, languages)

defaultCountryOf(initialCountry, locale, languages, only) ==
  LET dc == localeCountry(initialCountry, locale, languages)
  IN IF Len(only) > 0 /\ ~Includes(only, dc) THEN only[1] ELSE dc

\* [...new Set(list)]
RECURSIVE Dedupe(_, _)
Dedupe(list, seen) ==
  IF list = <<>> THEN <<>>
  ELSE IF Head(list) \in seen THEN Dedupe(Tail(list), seen)
  ELSE <<Head(list)>> \o Dedupe(Tail(list), seen \cup {Head(list)})

preferredCountriesOf(defaultCountry, languages, only) ==
  LET cs   == [i \in DOMAIN languages |-> toLowerCase(CountryPart(languages[i]))]
      kept == SelectSeq(cs, LAMBDA c : c # <<>> /\ (Len(only) = 0 \/ Includes(only, c)))
  IN Dedupe(<<defaultCountry>> \o kept, {})

\* defaultCountries of react-international-phone: [name, iso2, dialCode]
defaultCountries ==
  << [name |-> "Belgium", iso2 |-> <<"b", "e">>, dialCode |-> <<"3", "2">>],
     [name |-> "France", iso2 |-> <<"f", "r">>, dialCode |-> <<"3", "3">>],
     [name |-> "United States", iso2 |-> <<"u", "s">>, dialCode |-> <<"1">>] >>

\* i18n.get(name), for a French user
i18nGet(name) ==
  CASE name = "Belgium" -> "Belgique"
    [] name = "United States" -> "Etats-Unis"
    [] OTHER -> name

\* a.localeCompare(b) < 0 for the translated names
NameRank(name) ==
  CASE name = "Belgique" -> 1 [] name = "Belgium" -> 2 [] name = "Etats-Unis" -> 3
    [] name = "France" -> 4 [] OTHER -> 5

\* c, which came before every entry of sorted, takes its place in sorted: in
\* front of the first entry that does not compare less than it, so entries
\* that compare equal keep their order (Array.prototype.sort is stable).
RECURSIVE InsertSorted(_, _)
InsertSorted(sorted, c) ==
  IF sorted = <<>> THEN <<c>>
  ELSE IF NameRank(c.name) <= NameRank(Head(sorted).name) THEN <<c>> \o sorted
  ELSE <<Head(sorted)>> \o InsertSorted(Tail(sorted), c)

\* countries.sort((a, b) => a[0].localeCompare(b[0]))
RECURSIVE SortByName(_)
SortByName(cs) ==
  IF cs = <<>> THEN <<>> ELSE InsertSorted(SortByName(Tail(cs)), Head(cs))

countriesOf(only) ==
  LET filtered == IF Len(only) > 0
                  THEN SelectSeq(defaultCountries, LAMBDA c : Includes(only, c.iso2))
                  ELSE defaultCountries
      translated == [i \in DOMAIN filtered |->
                      [filtered[i] EXCEPT !.name = i18nGet(@)]]
  IN SortByName(translated)

countryIso2Of(country, defaultCountry, only) ==
  IF Len(only) > 0 /\ ~Includes(only, country.iso2) THEN defaultCountry
  ELSE country.iso2

\* phone !== `+${country.dialCode}` ? phone : ""
valueOf_Unchanged(ph, country) == ph

valueOf(ph, country) == IF ph # <<"+">> \o country.dialCode THEN ph ELSE <<>>

\* What the widget shows for a configuration and the hook's country.
PhoneView(cfg, country) ==
  LET only == onlyCountriesOf(cfg.onlyCountries)
      dc   == defaultCountryOf(cfg.initialCountry, cfg.locale, cfg.languages, only)
  IN [onlyCountries |-> only,
      defaultCountry |-> dc,
      preferredCountries |-> preferredCountriesOf(dc, cfg.languages, only),
      countries |-> countriesOf(only),
      countryIso2 |-> countryIso2Of(country, dc, only)]

MaxPieces == 3
MaxPhoneLen == 3

NoHanded == [kind |-> "none", value |-> <<>>]

PhoneState(cfg, country, ph, handed) ==
  [cfg |-> cfg, country |-> country, phone |-> ph, handed |-> handed,
   view |-> PhoneView(cfg, country)]

DefaultPhone ==
  PhoneState([onlyCountries |-> [def |-> FALSE, s |-> <<>>],
              initialCountry |-> <<>>, locale |-> <<"e", "n">>,
              languages |-> <<>>],
             defaultCountries[3], <<>>, NoHanded)

\* The widget part of the state, for the specifications of the Phone widget.
WidgetIdle ==
  WidgetInit(BaseSchema, DefaultProps, TitleOnly("Name"), Obj(NoErrors),
             "undefined", NoFormState)

WidgetVars ==
  <<schema, props, attrs, errors, value, lastSet, record, wlog, lastValid,
    lastCheck, rendered, mounted, renderedValue, processed, formState, lastClear, effect>>

\* handlePhoneValueChange: the hook computes the phone and its country and
\* calls the onChange given to usePhoneInput.
PhoneChange(ph, country) ==
  /\ phone' = PhoneState(phone.cfg, country, ph,
                         [kind |-> "change", value |-> valueOf(ph, country)])
  /\ lastOp' = "phoneChange"
  /\ UNCHANGED WidgetVars

\* onBlur of the input
PhoneBlur ==
  /\ phone' = PhoneState(phone.cfg, phone.country, phone.phone,
                         [kind |-> "blur",
                          value |-> valueOf(phone.phone, phone.country)])
  /\ lastOp' = "phoneBlur"
  /\ UNCHANGED WidgetVars

\* onSelect of the dropdown: setValue(null); setCountry(country.iso2), which
\* restarts the number at the dial code of the country.
SelectCountry(i) ==
  /\ i \in DOMAIN phone.view.countries
  /\ LET c == phone.view.countries[i]
         k == CHOOSE j \in DOMAIN defaultCountries : defaultCountries[j].iso2 = c.iso2
     IN /\ c.iso2 # phone.view.countryIso2
        /\ phone' = PhoneState(phone.cfg, defaultCountries[k],
                               <<"+">> \o c.dialCode,
                               [kind |-> "setValue", value |-> <<>>])
  /\ lastOp' = "selectCountry"
  /\ UNCHANGED WidgetVars

\* Sequences over S of length at most n
RECURSIVE SeqsUpTo(_, _)
SeqsUpTo(S, n) ==
  IF n = 0 THEN {<<>>}
  ELSE LET shorter == SeqsUpTo(S, n - 1)
       IN shorter \cup {Append(s, x) : s \in shorter, x \in S}

RECURSIVE Flatten(_)
Flatten(ss) == IF ss = <<>> THEN <<>> ELSE Head(ss) \o Flatten(Tail(ss))

\* Values of the widget attribute onlyCountries
RawPieces == {<<"f", "r">>, <<"F", "R">>, <<"u", "s">>, <<",">>, <<"/">>}
RawStrings ==
  {[def |-> FALSE, s |-> <<>>]} \cup
  {[def |-> TRUE, s |-> Flatten(ps)] : ps \in SeqsUpTo(RawPieces, MaxPieces)}

PhoneStrings == SeqsUpTo({"+", "1", "3"}, MaxPhoneLen)

InitialCountries == {<<>>, <<"f", "r">>, <<"b", "e">>}
Locales == {<<"e", "n">>, <<"z", "h">>, <<"f", "r", "-", "F", "R">>, <<"f", "r">>}
NavigatorLanguages ==
  {<<>>, << <<"f", "r", "-", "B", "E">>, <<"e", "n">>, <<"e", "n", "-", "U", "S">> >>}

HookCountries == {defaultCountries[i] : i \in DOMAIN defaultCountries}

(***************************************************************************)
(* Specifications                                                          *)
(***************************************************************************)

\* --- processSchema on its own ---
JsonSchemas ==
  {[BaseSchema EXCEPT !.jsonField = j, !.contextField = cf,
                      !.contextFieldValue = cv, !.hidden = h, !.required = r,
                      !.showIf = sh, !.hideIf = hi, !.requiredIf = rq] :
     j \in BOOLEAN, cf \in {"", "ctx"}, cv \in {""} \cup CtxIds, h \in BOOLEAN,
     r \in BOOLEAN, sh \in {<<>>, <<"a">>, <<"a", " || ", "b">>},
     hi \in {<<>>, <<"b">>}, rq \in {<<>>, <<"a", " || ", "b">>}}

InitSchema ==
  /\ \E s \in JsonSchemas :
       WidgetInit(s, DefaultProps, TitleOnly("Name"), Obj(NoErrors), "undefined",
                  NoFormState)
  /\ phone = DefaultPhone

NextSchema == ProcessSchema

SpecSchema == InitSchema /\ [][NextSchema]_vars

\* --- conditions: showIf, hideIf and the other boolean expressions ---
OtherConditionKeys == ConditionKeys \ {"showIf", "hideIf"}

JsonVariants ==
  {BaseSchema,
   [BaseSchema EXCEPT !.jsonField = TRUE],
   [BaseSchema EXCEPT !.jsonField = TRUE, !.contextField = "ctx",
                      !.contextFieldValue = "1"],
   [BaseSchema EXCEPT !.jsonField = TRUE, !.contextField = "ctx",
                      !.contextFieldValue = "1", !.hidden = TRUE]}

CondSchemas ==
  {[s EXCEPT !.showIf = sh, !.hideIf = hi] :
     s \in JsonVariants \cup
           {[j EXCEPT ![k] = <<"!", "a">>] : j \in JsonVariants,
                                            k \in OtherConditionKeys},
     sh \in {<<>>, <<"a">>, <<"a", " || ", "b">>},
     hi \in {<<>>, <<"b">>}}

InitCond ==
  /\ \E s \in CondSchemas :
     \E a \in AttrsOver(TitleOnly("Name"), {"hidden"}) :
       WidgetInit(s, DefaultProps, a, Obj(NoErrors), "undefined", NoFormState)
  /\ phone = DefaultPhone

NextCond ==
  \/ \E rec \in Records({"undefined"}) : RecordNotify(rec)
  \/ Render

SpecCond == InitCond /\ [][NextCond]_vars

\* --- validation: validIf and valueCheck ---
Widgets == {"string", "no-such-widget"}

ValidSchemas ==
  {[BaseSchema EXCEPT !.validIf = v, !.type = ty, !.widget = w, !.hideIf = hi] :
     v \in {<<>>, <<"a">>, <<"a", " || ", "b">>}, ty \in {"field", "panel"},
     w \in Widgets, hi \in {<<>>, <<"b">>}}

InitValid ==
  /\ \E s \in ValidSchemas :
     \E e \in {Undefined, Obj(NoErrors)} :
       WidgetInit(s, DefaultProps, TitleOnly("Name"), e, "undefined", NoFormState)
  /\ phone = DefaultPhone

NextValid ==
  \/ \E rec \in Records({"undefined"}) : RecordNotify(rec)
  \/ \E r \in ValidateResults : ValueCheck(r)
  \/ Render

SpecValid == InitValid /\ [][NextValid]_vars

\* --- bind ---
BindSchemas ==
  {[BaseSchema EXCEPT !.bind = b, !.type = ty] :
     b \in {<<>>, <<"x">>}, ty \in {"field", "panel"}}

InitBind ==
  /\ \E s \in BindSchemas :
     \E v \in Values :
       WidgetInit(s, DefaultProps, TitleOnly("Name"), Obj(NoErrors), v, NoFormState)
  /\ phone = DefaultPhone

NextBind ==
  \/ \E rec \in {r \in Records(Values) : r.a /\ r.b /\ r.ctx.id = "1"} :
       RecordNotify(rec)
  \/ \E v \in Values \ {"undefined"} : UserInput(v)
  \/ Render

SpecBind == InitBind /\ [][NextBind]_vars

\* --- rendering ---
RenderSchemas ==
  {[BaseSchema EXCEPT !.type = ty, !.jsonField = j, !.viewer = v, !.editor = ed,
                      !.readonlyIf = ro] :
     ty \in {"field", "panel", "panel-related"}, j \in BOOLEAN, v \in BOOLEAN,
     ed \in {NoEditor, [def |-> TRUE, viewer |-> FALSE], [def |-> TRUE, viewer |-> TRUE]},
     ro \in {<<>>, <<"a">>}}

InitRender ==
  /\ \E s \in RenderSchemas :
     \E p \in [render : BOOLEAN, readonly : BOOLEAN] :
     \E a0 \in AttrsOver(TitleOnly("Name"), {"hidden", "readonly"}) :
     \E ce \in {"undefined", "false"}, cv \in {"undefined", "false"} :
       LET a1 == IF ce = "false" THEN WithAttr(a0, "canEdit", FALSE) ELSE a0
           a2 == IF cv = "false" THEN WithAttr(a1, "canView", FALSE) ELSE a1
       IN WidgetInit(s, p, a2, Obj(NoErrors), "undefined", NoFormState)
  /\ phone = DefaultPhone

NextRender ==
  \/ \E rec \in {r \in Records({"undefined"}) : r.ctx.id = "1"} :
       RecordNotify(rec)
  \/ Render

SpecRender == InitRender /\ [][NextRender]_vars

\* --- the server error of a field ---
ErrorSchemas ==
  {[BaseSchema EXCEPT !.showIf = sh, !.widget = w] :
     sh \in {<<>>, <<"a">>}, w \in Widgets}

InitError ==
  /\ \E s \in ErrorSchemas :
     \E fs \in [present : BOOLEAN, hasErrors : BOOLEAN, error : {"", "E1"}] :
       WidgetInit(s, DefaultProps, TitleOnly("Name"), Obj(NoErrors), "undefined", fs)
  /\ phone = DefaultPhone

NextError ==
  \/ \E rec \in {r \in Records({"undefined"}) : r.b /\ r.ctx.id = "1"} :
       RecordNotify(rec)
  \/ \E v \in Values \ {"undefined"} : UserInput(v)
  \/ Render
  \/ RunClearError
  \/ \E e \in {"E1", "E2"} : ServerError(e)

SpecError ==
  InitError /\ [][NextError]_vars /\ WF_vars(Render) /\ WF_vars(RunClearError)

\* --- the Phone widget: the countries it offers ---
PhoneConfigs ==
  [onlyCountries : RawStrings, initialCountry : InitialCountries,
   locale : Locales, languages : NavigatorLanguages]

InitPhoneCountries ==
  /\ WidgetIdle
  /\ \E cfg \in PhoneConfigs : \E c \in HookCountries :
       phone = PhoneState(cfg, c, <<>>, NoHanded)

NextPhoneCountries ==
  \/ \E c \in HookCountries : PhoneChange(<<"+">> \o c.dialCode \o <<"1">>, c)
  \/ PhoneBlur
  \/ \E i \in DOMAIN defaultCountries : SelectCountry(i)

SpecPhoneCountries == InitPhoneCountries /\ [][NextPhoneCountries]_vars

\* --- the Phone widget: the value it hands to the field ---
InitPhoneInput ==
  /\ WidgetIdle
  /\ \E raw \in {r \in RawStrings : r.s \in {<<>>, <<"f", "r", ",", "u", "s">>}} :
     \E c \in HookCountries :
       phone = PhoneState([onlyCountries |-> raw, initialCountry |-> <<>>,
                           locale |-> <<"f", "r">>, languages |-> <<>>],
                          c, <<>>, NoHanded)

NextPhoneInput ==
  \/ \E ph \in PhoneStrings : \E c \in HookCountries : PhoneChange(ph, c)
  \/ PhoneBlur
  \/ \E i \in DOMAIN defaultCountries : SelectCountry(i)

SpecPhoneInput == InitPhoneInput /\ [][NextPhoneInput]_vars

(***************************************************************************)
(* Claims                                                                  *)
(***************************************************************************)

Readonly == AttrIs(attrs, "readonly", TRUE) \/ props.readonly
CanEdit == ~AttrIs(attrs, "canEdit", FALSE)
CanView == ~AttrIs(attrs, "canView", FALSE)
SchemaIsField ==
  schema.jsonField \/ schema.type = "field" \/ schema.type = "panel-related"

RenderPriority ==
  IF props.render THEN "Comp"
  ELSE IF AttrIs(attrs, "hidden", TRUE) THEN "null"
  ELSE IF schema.viewer /\ SchemaIsField /\ CanView /\ Readonly THEN "FieldViewer"
  ELSE IF /\ schema.editor.def
          /\ SchemaIsField
          /\ \/ CanEdit /\ ~Readonly
             \/ schema.editor.viewer /\ CanView /\ Readonly
       THEN "FieldEditor"
  ELSE "FormItem"

\* C1: FormWidget renders by the fixed priority custom render component,
\* nothing when hidden, FieldViewer, FieldEditor, FormItem; an editor is never
\* shown for a readonly widget unless schema.editor.viewer is set, and a viewer
\* is never shown for an editable widget.
\* (what is on screen is FormWidget's choice in the states a render produced:
\* the first one and every later render)
C1_RenderPriority ==
  lastOp \in {"init", "render"} =>
    /\ rendered = RenderPriority
    /\ (rendered = "FieldEditor" /\ Readonly) => schema.editor.viewer
    /\ rendered = "FieldViewer" => Readonly

C1_Witness ==
  /\ lastOp = "render"
  /\ rendered = "FieldEditor"
  /\ AttrIs(attrs, "readonly", TRUE)
  /\ ~props.readonly
  /\ schema.editor.viewer

\* The expressions the subscribed callback evaluates.
Effective == processSchema(schema)

AllConditions == Conditions1 \o Conditions2

\* Every write of the last handler run changed one attribute to a new value
\* and kept the other attributes and the errors.
WritesAreMinimal ==
  \A i \in DOMAIN wlog :
    LET w == wlog[i] IN
    w.by # "errors" =>
      /\ ~AttrIs(w.pre.attrs, w.by, w.post.attrs[w.by])
      /\ w.post.errors = w.pre.errors
      /\ \A k \in DOMAIN w.pre.attrs \ {w.by} :
           k \in DOMAIN w.post.attrs /\ w.post.attrs[k] = w.pre.attrs[k]
      /\ DOMAIN w.post.attrs = DOMAIN w.pre.attrs \cup {w.by}

\* C2: after every record notification each attribute that has a condition
\* expression equals the boolean value of the expression on the notified
\* record (hidden = NOT showIf, hidden = hideIf, readonly = readonlyIf, ...),
\* and the widget atom is written only for a changed attribute, changing only
\* that attribute.
C2_AttrsFollowExpressions ==
  lastOp = "notify" =>
    /\ \A i \in DOMAIN AllConditions :
         LET c == AllConditions[i] IN
         Truthy(Effective[c[1]]) =>
           AttrIs(attrs, c[2],
                  IF c[3] THEN ~parseExpression(Effective[c[1]], record)
                  ELSE parseExpression(Effective[c[1]], record))
    /\ WritesAreMinimal

\* C8: for a schema that has both showIf and hideIf, after each record
\* notification the widget is visible exactly when showIf is truthy and hideIf
\* is falsy on that record (for a context-bound JSON field: the merged
\* expression, which also asks for the context to match).
C8_ShowIfAndHideIf ==
  (lastOp = "notify" /\ Truthy(schema.showIf) /\ Truthy(schema.hideIf)) =>
    LET merged == Effective.hideIf = <<>>
        shown  == /\ parseExpression(schema.showIf, record)
                  /\ ~parseExpression(schema.hideIf, record)
                  /\ merged => record[schema.contextField].id = schema.contextFieldValue
    IN AttrIs(attrs, "hidden", FALSE) <=> shown

HasInvalid(e) == "invalid" \in DOMAIN OrEmpty(e)

\* C3: after every record notification of a widget with validIf, the errors
\* contain 'invalid' ('<title> is invalid') iff validIf was falsy on the
\* record; every other error is preserved; the atom is not written when the
\* errors come out deep-equal to the previous ones (the other writes of the
\* notification are those of handleCondition for a changed attribute).
C3_ValidIfSetsInvalid ==
  [][(lastOp' = "notify" /\ Truthy(schema.validIf)) =>
       /\ errors'.def
       /\ HasInvalid(errors') <=> ~parseExpression(schema.validIf, record')
       /\ HasInvalid(errors') =>
            errors'.map["invalid"] = attrs.title \o " is invalid"
       /\ WithoutError(errors'.map, "invalid") = WithoutError(OrEmpty(errors), "invalid")
       /\ (errors.def /\ errors'.map = errors.map) =>
            \A i \in DOMAIN wlog' : wlog'[i].by # "errors"
       /\ \A i \in DOMAIN wlog' :
            wlog'[i].by = "errors" => wlog'[i].pre.errors # wlog'[i].post.errors
    ]_vars

C3_Witness ==
  /\ lastOp = "notify"
  /\ HasInvalid(errors)
  /\ "required" \in DOMAIN OrEmpty(errors)
  /\ ~parseExpression(schema.validIf, record)

\* C4: on every record notification of a field with a bind expression the
\* value becomes the result of the bind expression, or null when that is null
\* or undefined, without firing the change event; the dirty flag is false when
\* the previous value was undefined and otherwise true exactly when the
\* previous value differs from the new one.
C4_BindSetsValue ==
  [][(lastOp' = "notify" /\ Truthy(schema.bind) /\ SchemaIsField) =>
       /\ value' = IF record'.x \in {"undefined", "null"} THEN "null" ELSE record'.x
       /\ lastSet'.called
       /\ lastSet'.value = value'
       /\ ~lastSet'.fireOnChange
       /\ lastSet'.markDirty = (value # "undefined" /\ value # value')
    ]_vars

C4_Witness ==
  /\ lastOp = "notify"
  /\ Truthy(schema.bind)
  /\ lastSet.called
  /\ lastSet.prev = "v1"
  /\ value = "v1"
  /\ ~lastSet.markDirty

\* C5: on every change and every blur the value handed to the field is the
\* empty string when the phone equals '+' followed by the dial code of the
\* current country, and the phone unchanged otherwise.
C5_NoBareDialCode ==
  phone.handed.kind \in {"change", "blur"} =>
    /\ phone.handed.value =
         IF phone.phone = <<"+">> \o phone.country.dialCode THEN <<>>
         ELSE phone.phone
    /\ phone.handed.value # <<"+">> \o phone.country.dialCode

C5_Witness ==
  /\ phone.handed.kind = "change"
  /\ phone.phone = <<"+", "3", "3">>
  /\ phone.country.iso2 = <<"f", "r">>
  /\ phone.handed.value = <<>>

Range(f) == {f[i] : i \in DOMAIN f}

\* C6: with a non-empty onlyCountries the default country, the displayed
\* country, every entry of the dropdown and every preferred country is one of
\* onlyCountries (default: first entry of onlyCountries when the starting
\* country is not listed; displayed: the default country when the detected
\* one is not listed); with an empty onlyCountries nothing is filtered out.
C6_OnlyCountries ==
  LET v    == phone.view
      only == Range(v.onlyCountries)
      base == localeCountry(phone.cfg.initialCountry, phone.cfg.locale,
                            phone.cfg.languages)
      langCountries ==
        {toLowerCase(CountryPart(l)) : l \in Range(phone.cfg.languages)} \ {<<>>}
  IN IF only # {}
     THEN /\ v.defaultCountry \in only
          /\ v.defaultCountry = IF base \in only THEN base ELSE v.onlyCountries[1]
          /\ v.countryIso2 \in only
          /\ v.countryIso2 = IF phone.country.iso2 \in only
                             THEN phone.country.iso2 ELSE v.defaultCountry
          /\ \A c \in Range(v.countries) : c.iso2 \in only
          /\ \A c \in Range(defaultCountries) :
               c.iso2 \in only => c.iso2 \in {d.iso2 : d \in Range(v.countries)}
          /\ Range(v.preferredCountries) \subseteq only
     ELSE /\ v.defaultCountry = base
          /\ v.countryIso2 = phone.country.iso2
          /\ {c.iso2 : c \in Range(v.countries)} =
               {c.iso2 : c \in Range(defaultCountries)}
          /\ Range(v.preferredCountries) = {base} \cup langCountries

C6_Witness ==
  /\ lastOp = "phoneChange"
  /\ phone.view.onlyCountries = << <<"f", "r">>, <<"u", "s">> >>
  /\ phone.cfg.initialCountry = <<"b", "e">>
  /\ phone.country.iso2 = <<"b", "e">>
  /\ phone.view.defaultCountry = <<"f", "r">>
  /\ phone.view.countryIso2 = <<"f", "r">>

\* C7: valueCheck and handleValidation do not overwrite each other: after any
\* interleaving 'invalid' is present iff the most recent validIf evaluation
\* was falsy, the remaining errors are those of the most recent validate
\* call, and valueCheck does not write errors deep-equal to the previous ones.
C7_ValidationsDoNotInterfere ==
  /\ HasInvalid(errors) <=> lastValid = "falsy"
  /\ WithoutError(OrEmpty(errors), "invalid") =
       IF lastCheck.called THEN OrEmpty(lastCheck.r) ELSE NoErrors
  /\ lastOp = "valueCheck" =>
       \A i \in DOMAIN wlog :
         OrEmpty(wlog[i].pre.errors) # OrEmpty(wlog[i].post.errors)

C7_Witness ==
  /\ lastOp = "valueCheck"
  /\ lastValid = "falsy"
  /\ HasInvalid(errors)
  /\ "required" \in DOMAIN OrEmpty(errors)
  /\ wlog # <<>>

\* C9 as stated: whenever the field's value changes, a non-empty server error
\* of the field is eventually reset to the empty string unless the effect was
\* aborted first.
C9_AsStated ==
  (lastOp = "input") ~> (serverError(formState) = "" \/ effect = "aborted")

\* C9: every render that mounts FormField or in which FormField reads a value
\* other than the one of its previous render starts the clearError effect, and
\* from such a render on a non-empty server error of the field is eventually
\* reset to the empty string unless the effect is aborted first; when the
\* server error is empty or absent the form state is not written.
C9_ServerErrorCleared ==
  /\ [][(lastOp' = "render" /\ mounted') => effect' = "pending"]_vars
  /\ (lastOp = "render" /\ mounted) ~>
        (serverError(formState) = "" \/ effect = "aborted")
  /\ (effect = "pending") ~> (serverError(formState) = "" \/ effect = "aborted")
  /\ [][(lastOp' = "clearError") =>
          /\ serverError(formState') = ""
          /\ serverError(formState) = "" =>
               (formState' = formState /\ lastClear' = "skipped")
          /\ serverError(formState) # "" => lastClear' = "written"
       ]_vars

C9_Witness ==
  /\ lastOp = "clearError"
  /\ lastClear = "written"
  /\ lastSet.called
  /\ renderedValue = lastSet.value
  /\ formState.present /\ formState.hasErrors /\ formState.error = ""

ContextBound(s) == s.jsonField /\ s.contextField # "" /\ s.contextFieldValue # ""
Rewritten(s) == ContextBound(s) /\ ~(s.hidden /\ s.showIf = <<>> /\ s.hideIf = <<>>)
ContextCondition(s) ==
  "($record." \o s.contextField \o ".id === " \o s.contextFieldValue \o ")"
Mismatching(s) == {r \in Records({"undefined"}) : r.ctx.id # s.contextFieldValue}

\* The strings processSchema is to return
ProcessedAsStated ==
  LET s == schema
      o == processed
  IN IF ~Rewritten(s) THEN o = s
     ELSE /\ Join(o.showIf) =
               ContextCondition(s)
                 \o (IF s.showIf # <<>> THEN " && (" \o Join(s.showIf) \o ")" ELSE "")
                 \o (IF s.hideIf # <<>> THEN " && !(" \o Join(s.hideIf) \o ")" ELSE "")
          /\ o.hideIf = <<>>
          /\ Join(o.requiredIf) =
               IF s.requiredIf # <<>>
               THEN ContextCondition(s) \o " && (" \o Join(s.requiredIf) \o ")"
               ELSE IF s.required THEN ContextCondition(s) ELSE ""
          /\ [o EXCEPT !.showIf = s.showIf, !.hideIf = s.hideIf,
                       !.requiredIf = s.requiredIf] = s

\* shown / required on a record, by the processed schema
ShownOn(o, rec) ==
  IF Truthy(o.showIf) \/ Truthy(o.hideIf)
  THEN /\ Truthy(o.showIf) => parseExpression(o.showIf, rec)
       /\ Truthy(o.hideIf) => ~parseExpression(o.hideIf, rec)
  ELSE ~o.hidden
RequiredOn(o, rec) ==
  IF Truthy(o.requiredIf) THEN parseExpression(o.requiredIf, rec) ELSE o.required

\* C10 as stated: processSchema returns the strings above, so a context-bound
\* JSON field is never shown or required when the context does not match.
C10_AsStated ==
  lastOp = "processSchema" =>
    /\ ProcessedAsStated
    /\ ContextBound(schema) =>
         \A rec \in Mismatching(schema) :
           ~ShownOn(processed, rec) /\ ~RequiredOn(processed, rec)

\* C10 amended: processSchema returns the strings above, so a context-bound
\* JSON field is never shown when the context does not match, and never
\* required then unless it is hidden with neither showIf nor hideIf (the case
\* processSchema returns unchanged, required and requiredIf included).
C10_ProcessSchema ==
  lastOp = "processSchema" =>
    /\ ProcessedAsStated
    /\ ContextBound(schema) =>
         \A rec \in Mismatching(schema) :
           /\ ~ShownOn(processed, rec)
           /\ Rewritten(schema) => ~RequiredOn(processed, rec)

C10_Witness ==
  /\ lastOp = "processSchema"
  /\ Rewritten(schema)
  /\ schema.showIf = <<"a", " || ", "b">>
  /\ schema.hideIf # <<>>
  /\ schema.requiredIf # <<>>
  /\ Join(processed.showIf) = "($record.ctx.id === 1) && (a || b) && !(b)"
  /\ Join(processed.requiredIf) = "($record.ctx.id === 1) && (a || b)"

====
